---- MODULE Spec2Model ----
(***************************************************************************)
(* Model of the iterative refinement loop of adk-writer:                   *)
(*   src/src/agents/loop_agent.py   (LoopState, LoopAgent)                  *)
(*   src/src/agents/base_agents.py  (DraftWriterAgent, CriticAgent,         *)
(*                                   RefinerAgent)                          *)
(*   src/src/agents/enhanced_draft_agent.py (EnhancedDraftWriterAgent)      *)
(*   src/src/agents/sequential_agent.py (SequentialAgent)                   *)
(*   src/src/config.py              (Config)                                *)
(*                                                                         *)
(* Scores are modelled in hundredths (0.70 is 70), which is exact for every *)
(* constant the code adds or compares.  A text is an identifier; text 0 is  *)
(* the empty string and text t has length t.  A critique text is modelled   *)
(* by the features the code reads from it: the integer captured by the      *)
(* first matching score pattern (num, <<>> when no pattern matches), the     *)
(* presence of the sentinel phrase, and the set of rubric phrases it         *)
(* contains.  Elapsed wall-clock time is counted in clock ticks and advances *)
(* between two reads of the clock.                                           *)
(***************************************************************************)
EXTENDS Integers, Sequences, FiniteSets, TLC

(* ---------------------------- bounds ----------------------------------- *)
MaxCfgIterations == 3    \* largest configured MAX_ITERATIONS explored
NumTexts == 1            \* provider texts are 0 (empty) .. NumTexts
MaxElapsed == 2          \* the clock saturates at this many ticks
MaxRuns == 2             \* run() calls on one LoopAgent
MaxPasses == 2           \* cap on the passes of one run (never reached by the code)
MaxPassTicks == 1        \* most clock ticks that pass during one pass
MaxExecutes == 2         \* execute() calls on one SequentialAgent

(* ---------------------------- helpers ---------------------------------- *)
Min(a, b) == IF a < b THEN a ELSE b
Max(a, b) == IF a > b THEN a ELSE b

Texts == 0..NumTexts
TextLen(t) == t

(* Rubric phrases a critique may contain (Korean keywords of the source,   *)
(* written in Revised Romanization), and the substring relation the Python *)
(* `word in critique` test sees between a phrase and a keyword.            *)
PhrasePool == {"usu", "munje"}
HasWord(phrase, word) ==
    \/ phrase = word
    \/ phrase = "gaeseon piryo" /\ word = "gaeseon"
    \/ phrase = "sujeong piryo" /\ word = "sujeong"
    \/ phrase = "joha" /\ word = "joh"
InCritique(word, critique) == \E p \in critique.kw : HasWord(p, word)
CountIn(words, critique) == Cardinality({w \in words : InCritique(w, critique)})

ExplicitNums == {<<>>, <<1>>, <<50>>, <<75>>, <<95>>}
Critiques == [num : ExplicitNums, sentinel : BOOLEAN, kw : SUBSET PhrasePool]
CritiqueLen(c) == 1 + Len(c.num) + Cardinality(c.kw) + (IF c.sentinel THEN 1 ELSE 0)

(* ---------------------------- Config ----------------------------------- *)
DEFAULT_QUALITY_THRESHOLD == 90
Thresholds == {DEFAULT_QUALITY_THRESHOLD, 100}
Timeouts == {0, 1}

(* ---------------------------- agents ----------------------------------- *)
DRAFT_BASELINE == 70
ENHANCED_BASELINE == 75
SCORE_CAP == 99
SENTINEL_SCORE == 95

DraftQualityScore(web) == IF web THEN ENHANCED_BASELINE ELSE DRAFT_BASELINE

CriticPositive == {"joh", "usu", "hullyung", "jeokjeol", "myeonghwak", "chegyejeok"}
CriticNegative == {"bujok", "miheup", "oryu", "munje", "gaeseon piryo", "sujeong"}

(* int(match.group(1)) normalised to [0,1]: a value above 1 is divided by   *)
(* 100, a value of 0 or 1 is kept as it is, then clamped.                   *)
NormalizeScore(n) == Min(Max(IF n > 1 THEN n ELSE n * 100, 0), 100)

ExtractedScoreNumberFirst(critique, previous_score) ==
    IF critique.num # <<>>
      THEN NormalizeScore(critique.num[1])
      ELSE IF critique.sentinel
        THEN Max(SENTINEL_SCORE, previous_score + 5)
        ELSE previous_score + 7
ExtractedScoreTieAsNegative(critique, previous_score) ==
    IF critique.sentinel
      THEN Max(SENTINEL_SCORE, previous_score + 5)
      ELSE IF critique.num # <<>>
        THEN NormalizeScore(critique.num[1])
        ELSE IF CountIn(CriticPositive, critique) > CountIn(CriticNegative, critique)
               THEN previous_score + 10
               ELSE previous_score + 5

ExtractedScore(critique, previous_score) ==
    IF critique.sentinel
      THEN Max(SENTINEL_SCORE, previous_score + 5)
      ELSE IF critique.num # <<>>
        THEN NormalizeScore(critique.num[1])
        ELSE LET positive_count == CountIn(CriticPositive, critique)
                 negative_count == CountIn(CriticNegative, critique)
             IN  IF positive_count > negative_count THEN previous_score + 10
                 ELSE IF negative_count > positive_count THEN previous_score + 5
                 ELSE previous_score + 7

ExtractQualityScoreNoFloor(critique, previous_score) ==
    Min(ExtractedScore(critique, previous_score), SCORE_CAP)

ExtractQualityScore(critique, previous_score) ==
    Min(Max(ExtractedScore(critique, previous_score), previous_score + 1), SCORE_CAP)

RefinerPositive == {"gaeseon", "hyangsang", "joha", "usu", "geungjeong", "jal"}
RefinerNegative == {"bujok", "miheup", "oryu", "munje", "sujeong piryo"}

Improvement(critique, refined_content) ==
    LET positive_count == CountIn(RefinerPositive, critique)
        negative_count == CountIn(RefinerNegative, critique)
        base == IF positive_count > negative_count
                  THEN 10 + 5 * (positive_count - negative_count)
                  ELSE IF negative_count > positive_count
                    THEN Max(5, 10 - 2 * (negative_count - positive_count))
                    ELSE 10
        substantial == refined_content # 0
                       /\ 2 * TextLen(refined_content) > CritiqueLen(critique)
    IN  base + (IF substantial THEN 2 ELSE 0)

CalculateImprovement(previous_score, critique, refined_content) ==
    IF critique.sentinel
      THEN Max(SENTINEL_SCORE, previous_score)
      ELSE Min(Max(previous_score + Improvement(critique, refined_content),
                   previous_score + 1), SCORE_CAP)

(* ---------------------------- state ------------------------------------ *)
VARIABLES
    MAX_ITERATIONS, QUALITY_THRESHOLD, TIMEOUT_SECONDS,  \* config
    enable_web_search,        \* input_data flag of the current run
    pc,                       \* position of run()
    iteration, current_draft, current_score, history, exit_reason,
    final_output, best_score, best_content, score_history,   \* LoopState
    elapsed,                  \* time.time() - state.start_time, in ticks
    web_search_results,       \* LoopAgent attribute, 0 when absent/empty
    pipeline_input,           \* previous_draft / previous_score of the pass
    iteration_result,         \* dict built by _run_iteration
    result,                   \* dict returned by run()
    passes,                   \* loop bodies executed in this run
    pass_start,               \* best_score / best_content when the pass began
    runs,                     \* run() calls started
    draft_calls,              \* calls of the draft agent's process() in this run
    provider_error,           \* the stage whose provider call just failed inside a client, or ""
    probe,                    \* a direct call of a scoring function: inputs and result
    seq,                      \* a SequentialAgent and the position of its execute()
    request                   \* the limit fields of the input_data handed to run()

cfgvars == <<MAX_ITERATIONS, QUALITY_THRESHOLD, TIMEOUT_SECONDS, enable_web_search, probe,
             seq, request>>
statevars == <<iteration, current_draft, current_score, history, exit_reason,
               final_output, best_score, best_content, score_history>>
vars == <<MAX_ITERATIONS, QUALITY_THRESHOLD, TIMEOUT_SECONDS, enable_web_search,
          pc, iteration, current_draft, current_score, history, exit_reason,
          final_output, best_score, best_content, score_history, elapsed,
          web_search_results, pipeline_input, iteration_result, result,
          passes, pass_start, runs, draft_calls, provider_error, probe, seq, request>>
loopvars == <<MAX_ITERATIONS, QUALITY_THRESHOLD, TIMEOUT_SECONDS, enable_web_search,
              pc, iteration, current_draft, current_score, history, exit_reason,
              final_output, best_score, best_content, score_history, elapsed,
              web_search_results, pipeline_input, iteration_result, result,
              passes, pass_start, runs, draft_calls, provider_error, request>>

NoInput == [previous_draft |-> 0, previous_score |-> 0]
NoBest == [best_score |-> 0, best_content |-> 0]
NoCritique == [num |-> <<>>, sentinel |-> FALSE, kw |-> {}]
NoIterationResult ==
    [draft |-> 0, critique |-> NoCritique, critic_score |-> 0, quality_score |-> 0,
     refined_content |-> 0, rolled_back |-> FALSE, rollback_reason |-> <<>>,
     web_search_results |-> 0, refiner_called |-> FALSE]
NoResult ==
    [success |-> FALSE, final_document |-> 0, quality_score |-> 0, iterations |-> 0,
     exit_reason |-> "", history |-> <<>>, best_score |-> 0,
     score_progression |-> <<>>, web_search_results |-> 0]

NoProbe ==
    [stage |-> "none", previous_score |-> 0, critique |-> NoCritique,
     refined_content |-> 0, extracted |-> 0, score |-> 0]

(* an input_data without limit fields (test_pipeline.py) *)
NoLimits ==
    [has_limits |-> FALSE, quality_threshold |-> 0, max_iterations |-> 0,
     timeout_seconds |-> 0]

(* SequentialAgent.__init__, lines 22-24, before the first execute() *)
NoSeq ==
    [status |-> "idle", include_contents |-> "none", i |-> 0, results |-> <<>>,
     execution_history |-> <<>>, calls |-> <<>>, executes |-> 0]

Tick(d) == Min(elapsed + d, MaxElapsed)

(* LoopAgent.__init__, lines 73-80: a LoopAgent on which run() was not     *)
(* called yet                                                              *)
LoopIdle ==
    /\ enable_web_search = FALSE
    /\ pc = "idle"
    /\ iteration = 0
    /\ current_draft = 0
    /\ current_score = 0
    /\ history = <<>>
    /\ exit_reason = ""
    /\ final_output = 0
    /\ best_score = 0
    /\ best_content = 0
    /\ score_history = <<>>
    /\ elapsed = 0
    /\ web_search_results = 0
    /\ pipeline_input = NoInput
    /\ iteration_result = NoIterationResult
    /\ result = NoResult
    /\ passes = 0
    /\ pass_start = NoBest
    /\ runs = 0
    /\ draft_calls = 0
    /\ provider_error = ""

Init ==
    /\ MAX_ITERATIONS \in 0..MaxCfgIterations
    /\ QUALITY_THRESHOLD \in Thresholds
    /\ TIMEOUT_SECONDS \in Timeouts
    /\ LoopIdle
    /\ probe = NoProbe
    /\ seq = NoSeq
    /\ request = NoLimits

KeptLoopState ==
    [iteration |-> iteration, current_draft |-> current_draft,
     current_score |-> current_score, history |-> history, exit_reason |-> exit_reason,
     final_output |-> final_output, best_score |-> best_score,
     best_content |-> best_content, score_history |-> score_history]

(* LoopState(), lines 23-35: the field defaults *)
NewLoopState ==
    [iteration |-> 0, current_draft |-> 0, current_score |-> 0, history |-> <<>>,
     exit_reason |-> "", final_output |-> 0, best_score |-> 0, best_content |-> 0,
     score_history |-> <<>>]

(* run(), lines 159-160: self.state = LoopState().  The request's          *)
(* enable_web_search flag is an input of the call.                         *)
Run ==
    /\ pc \in {"idle", "returned", "raised"}
    /\ runs < MaxRuns
    /\ runs' = runs + 1
    /\ pc' = "loop_test"
    /\ iteration' = NewLoopState.iteration
    /\ current_draft' = NewLoopState.current_draft
    /\ current_score' = NewLoopState.current_score
    /\ history' = NewLoopState.history
    /\ exit_reason' = NewLoopState.exit_reason
    /\ final_output' = NewLoopState.final_output
    /\ best_score' = NewLoopState.best_score
    /\ best_content' = NewLoopState.best_content
    /\ score_history' = NewLoopState.score_history
    /\ elapsed' = 0
    /\ pipeline_input' = NoInput
    /\ iteration_result' = NoIterationResult
    /\ result' = NoResult
    /\ passes' = 0
    /\ pass_start' = NoBest
    /\ draft_calls' = 0
    /\ provider_error' = ""
    /\ enable_web_search' \in BOOLEAN
    /\ UNCHANGED <<MAX_ITERATIONS, QUALITY_THRESHOLD, TIMEOUT_SECONDS, web_search_results,
                   probe, seq, request>>

IterationLimitEquals(n) == n = MAX_ITERATIONS
IterationLimitExceeded(n) == n > MAX_ITERATIONS

(* lines 49 and 130: iteration >= config.MAX_ITERATIONS *)
IterationLimitReached(n) == n >= MAX_ITERATIONS

StateShouldExitSwapped(now) ==
    IF IterationLimitReached(iteration) THEN "timeout"
    ELSE IF now > TIMEOUT_SECONDS THEN "max_iterations"
    ELSE IF current_score >= QUALITY_THRESHOLD THEN "quality_achieved"
    ELSE ""

(* LoopState.should_exit, lines 46-64: the reason it sets, "" when it     *)
(* returns False                                                           *)
StateShouldExit(now) ==
    IF IterationLimitReached(iteration) THEN "max_iterations"
    ELSE IF now > TIMEOUT_SECONDS THEN "timeout"
    ELSE IF current_score >= QUALITY_THRESHOLD THEN "quality_achieved"
    ELSE ""

(* while not self.state.should_exit(): ... lines 163-173 *)
LoopTest ==
    /\ pc = "loop_test"
    /\ \E d \in 0..1 :
        LET now == Tick(d)
            reason == StateShouldExit(now)
        IN  /\ elapsed' = now
            /\ IF reason # ""
                 THEN /\ exit_reason' = reason
                      /\ pc' = "finalize"
                      /\ UNCHANGED <<iteration, pipeline_input, passes, pass_start,
                                     iteration_result>>
                 ELSE /\ passes < MaxPasses
                      /\ iteration' = iteration + 1
                      /\ pass_start' = [best_score |-> best_score,
                                        best_content |-> best_content]
                      /\ pipeline_input' = [previous_draft |-> current_draft,
                                            previous_score |-> current_score]
                      /\ iteration_result' = NoIterationResult
                      /\ passes' = passes + 1
                      /\ pc' = "draft"
                      /\ UNCHANGED exit_reason
    /\ UNCHANGED <<cfgvars, current_draft, current_score, history, final_output,
                   best_score, best_content, score_history, web_search_results,
                   result, runs, draft_calls>>
    /\ provider_error' = ""

(* A backend call that fails does one of two things, fixed by model_config *)
(* (base_agents.py lines 52-79).  With a provider named, the call goes     *)
(* through AnthropicClient/OpenAIClient/GeminiClient.generate, which       *)
(* catches the exception and returns "" (multi_model_agents.py lines       *)
(* 53-58, 85-89, 117-121): the failed flag of the stage actions.  Without  *)
(* one, model.generate_content raises: ProviderRaises.  No variable keeps  *)
(* the setting: no state records which kind of failure happened earlier    *)
(* (provider_error lasts one step, and "" is also a text a backend can     *)
(* return), so the reachable states are those of the two settings taken    *)
(* together.                                                               *)
ClientFailures == BOOLEAN

(* the text a generate() call hands to the stage: "" after a failure that  *)
(* the client caught                                                       *)
ReturnedTexts(failed) == IF failed THEN {0} ELSE Texts
ReturnedCritiques(failed) == IF failed THEN {NoCritique} ELSE Critiques

IsStartedIteration(n) == n >= 1

(* line 244: if self.state.iteration == 1 *)
IsFirstIteration(n) == n = 1

(* _run_iteration step 1, lines 244-263: the first pass calls the draft    *)
(* agent and initialises current and best from its response.               *)
GenerateDraft ==
    /\ pc = "draft"
    /\ IsFirstIteration(iteration)
    /\ \E failed \in ClientFailures : \E content \in ReturnedTexts(failed), found \in BOOLEAN :
        LET initial_score == DraftQualityScore(enable_web_search)
            wsr == IF enable_web_search /\ found THEN runs ELSE 0
        IN  /\ best_score' = initial_score
            /\ best_content' = content
            /\ current_score' = initial_score
            /\ current_draft' = content
            /\ web_search_results' = IF wsr # 0 THEN wsr ELSE web_search_results
            /\ iteration_result' = [iteration_result EXCEPT
                                      !.draft = content, !.web_search_results = wsr]
            /\ provider_error' = IF failed THEN "draft" ELSE ""
    /\ draft_calls' = draft_calls + 1
    /\ pc' = "critique"
    /\ UNCHANGED <<cfgvars, iteration, history, exit_reason, final_output,
                   score_history, elapsed, pipeline_input, result, passes, pass_start, runs>>

(* _run_iteration step 1, lines 264-266: later passes reuse previous_draft *)
ReuseDraft ==
    /\ pc = "draft"
    /\ ~IsFirstIteration(iteration)
    /\ iteration_result' = [iteration_result EXCEPT !.draft = pipeline_input.previous_draft]
    /\ pc' = "critique"
    /\ UNCHANGED <<cfgvars, statevars, elapsed, web_search_results, pipeline_input,
                   result, passes, pass_start, runs, draft_calls>>
    /\ provider_error' = ""

(* _run_iteration step 2, lines 268-279, with CriticAgent.process *)
Critique ==
    /\ pc = "critique"
    /\ \E failed \in ClientFailures : \E critique \in ReturnedCritiques(failed) :
        LET score == ExtractQualityScore(critique, pipeline_input.previous_score)
        IN  /\ iteration_result' = [iteration_result EXCEPT
                                      !.critique = critique,
                                      !.critic_score = score,
                                      !.quality_score = score]
            /\ provider_error' = IF failed THEN "critic" ELSE ""
    /\ pc' = "refine"
    /\ UNCHANGED <<cfgvars, statevars, elapsed, web_search_results, pipeline_input,
                   result, passes, pass_start, runs, draft_calls>>

(* line 282: the Refiner runs unless the critique holds the sentinel *)
RefinerAlwaysRuns(critique) == TRUE

RefinerRuns(critique) == ~critique.sentinel

(* _run_iteration step 3, lines 282-291, with RefinerAgent.process *)
Refine ==
    /\ pc = "refine"
    /\ RefinerRuns(iteration_result.critique)
    /\ \E failed \in ClientFailures : \E content \in ReturnedTexts(failed) :
        /\ iteration_result' = [iteration_result EXCEPT
              !.refined_content = content,
              !.refiner_called = TRUE,
              !.quality_score = CalculateImprovement(iteration_result.critic_score,
                                                     iteration_result.critique, content)]
        /\ provider_error' = IF failed THEN "refiner" ELSE ""
    /\ pc' = "update"
    /\ UNCHANGED <<cfgvars, statevars, elapsed, web_search_results, pipeline_input,
                   result, passes, pass_start, runs, draft_calls>>

(* _run_iteration step 3, lines 292-293: refined_content is the draft *)
SkipRefine ==
    /\ pc = "refine"
    /\ ~RefinerRuns(iteration_result.critique)
    /\ iteration_result' = [iteration_result EXCEPT !.refined_content = iteration_result.draft]
    /\ pc' = "update"
    /\ UNCHANGED <<cfgvars, statevars, elapsed, web_search_results, pipeline_input,
                   result, passes, pass_start, runs, draft_calls>>
    /\ provider_error' = ""

(* BaseLlmAgent.generate lines 93-95 and LoopAgent.run lines 235-237: an   *)
(* exception of model.generate_content is logged and raised again by       *)
(* generate(), passes through process() and _run_iteration(), and is       *)
(* logged and raised again by run().                                       *)
ProviderRaises ==
    /\ \/ pc = "draft" /\ IsFirstIteration(iteration)
       \/ pc = "critique"
       \/ pc = "refine" /\ RefinerRuns(iteration_result.critique)
    /\ draft_calls' = IF pc = "draft" THEN draft_calls + 1 ELSE draft_calls
    /\ pc' = "raised"
    /\ provider_error' = ""
    /\ UNCHANGED <<cfgvars, statevars, elapsed, web_search_results, pipeline_input,
                   iteration_result, result, passes, pass_start, runs>>

QualityNeverDecreased(new_score, score) == FALSE

(* line 186: the regression guard *)
QualityDecreased(new_score, score) == new_score < score

BestAfterInverted(new_score, new_content) ==
    IF new_score < best_score
      THEN [score |-> new_score, content |-> new_content]
      ELSE [score |-> best_score, content |-> best_content]
BestAfterStale(new_score, new_content) ==
    [score |-> best_score, content |-> best_content]

(* lines 201-203: the best version after adopting new_score / new_content *)
BestAfter(new_score, new_content) ==
    IF new_score > best_score
      THEN [score |-> new_score, content |-> new_content]
      ELSE [score |-> best_score, content |-> best_content]

(* LoopState.add_iteration, lines 37-44: the counter after the call *)
AddIterationCounter(n) == n + 1

HistoryEntryCriticScore(n, r) ==
    [iteration |-> n, draft |-> r.draft, critic_score |-> r.critic_score,
     refined_content |-> r.refined_content,
     quality_score |-> r.critic_score, rolled_back |-> r.rolled_back,
     rollback_reason |-> r.rollback_reason]

(* LoopState.add_iteration, lines 40-44: the record appended to history    *)
(* (the fields of the iteration result that are read later).               *)
HistoryEntry(n, r) ==
    [iteration |-> n, draft |-> r.draft, critic_score |-> r.critic_score,
     refined_content |-> r.refined_content,
     quality_score |-> r.quality_score, rolled_back |-> r.rolled_back,
     rollback_reason |-> r.rollback_reason]

(* run() lines 178-206: state update with quality monitoring *)
UpdateState ==
    /\ pc = "update"
    /\ LET new_content == iteration_result.refined_content
           new_score == iteration_result.quality_score
           rolled == QualityDecreased(new_score, current_score)
           recorded == IF rolled
                         THEN [iteration_result EXCEPT
                                 !.rolled_back = TRUE,
                                 !.rollback_reason = <<current_score, new_score>>,
                                 !.refined_content = current_draft,
                                 !.quality_score = current_score]
                         ELSE iteration_result
           best == BestAfter(new_score, new_content)
       IN  /\ score_history' = Append(score_history, new_score)
           /\ iteration_result' = recorded
           /\ IF rolled
                THEN UNCHANGED <<current_draft, current_score, best_score, best_content>>
                ELSE /\ current_draft' = new_content
                     /\ current_score' = new_score
                     /\ best_score' = best.score
                     /\ best_content' = best.content
           /\ iteration' = AddIterationCounter(iteration)
           /\ history' = Append(history, HistoryEntry(AddIterationCounter(iteration),
                                                       recorded))
    /\ pc' = "exit_check"
    /\ UNCHANGED <<cfgvars, exit_reason, final_output, elapsed, web_search_results,
                   pipeline_input, result, passes, pass_start, runs, draft_calls>>
    /\ provider_error' = ""

(* _setup_exit_conditions, lines 105-112: the checks in list order *)
exit_conditions == <<"quality_threshold", "no_major_issues", "iteration_limit", "timeout">>

(* _check_quality_threshold .. _check_timeout, lines 114-141: the reason a *)
(* check sets, "" when it returns False.  The checks read the critique     *)
(* response of the pass, the iteration counter and the clock.              *)
CheckCondition(name, now) ==
    IF name = "quality_threshold"
      THEN IF iteration_result.critic_score >= QUALITY_THRESHOLD THEN "quality_met" ELSE ""
    ELSE IF name = "no_major_issues"
      THEN IF iteration_result.critique.sentinel THEN "no_major_issues" ELSE ""
    ELSE IF name = "iteration_limit"
      THEN IF IterationLimitReached(iteration) THEN "max_iterations" ELSE ""
    ELSE IF now > TIMEOUT_SECONDS THEN "timeout" ELSE ""

(* _should_exit, lines 297-302: the first check that fires *)
RECURSIVE FirstTrue(_, _, _)
FirstTrue(conds, i, now) ==
    IF i > Len(conds) THEN ""
    ELSE IF CheckCondition(conds[i], now) # "" THEN CheckCondition(conds[i], now)
    ELSE FirstTrue(conds, i + 1, now)

ShouldExit(now) == FirstTrue(exit_conditions, 1, now)

(* run() lines 208-223: the exit check after the pass *)
ExitCheck ==
    /\ pc = "exit_check"
    /\ \E d \in 0..MaxPassTicks :
        LET now == Tick(d)
        IN  /\ elapsed' = now
            /\ IF ShouldExit(now) # ""
                 THEN /\ exit_reason' = ShouldExit(now)
                      /\ pc' = "finalize"
                 ELSE /\ pc' = "loop_test"
                      /\ UNCHANGED exit_reason
    /\ UNCHANGED <<cfgvars, iteration, current_draft, current_score, history,
                   final_output, best_score, best_content, score_history,
                   web_search_results, pipeline_input, iteration_result, result,
                   passes, pass_start, runs, draft_calls>>
    /\ provider_error' = ""

(* run() lines 226-231: the document that is returned *)
FinalOutput ==
    IF best_score > current_score THEN best_content ELSE current_draft

(* run() lines 226-231: the score that is returned *)
FinalScore ==
    IF best_score > current_score THEN best_score ELSE current_score

(* run() lines 225-233 and _prepare_final_result, lines 304-344 *)
Finalize ==
    /\ pc = "finalize"
    /\ final_output' = FinalOutput
    /\ current_score' = FinalScore
    /\ result' = [success |-> TRUE,
                  final_document |-> FinalOutput,
                  quality_score |-> FinalScore,
                  iterations |-> iteration,
                  exit_reason |-> exit_reason,
                  history |-> history,
                  best_score |-> best_score,
                  score_progression |-> score_history,
                  web_search_results |-> web_search_results]
    /\ pc' = "returned"
    /\ UNCHANGED <<cfgvars, iteration, current_draft, history, exit_reason,
                   best_score, best_content, score_history, elapsed,
                   web_search_results, pipeline_input, iteration_result,
                   passes, pass_start, runs, draft_calls>>
    /\ provider_error' = ""

Next ==
    \/ Run
    \/ LoopTest
    \/ GenerateDraft
    \/ ReuseDraft
    \/ Critique
    \/ Refine
    \/ SkipRefine
    \/ ProviderRaises
    \/ UpdateState
    \/ ExitCheck
    \/ Finalize

Spec == Init /\ [][Next]_vars

(* The loop is single-threaded and synchronous: once run() is called every *)
(* step of it is eventually taken (each provider call returns).  A new     *)
(* call of run() is the caller's choice and is not forced.                 *)
RunSteps ==
    \/ LoopTest
    \/ GenerateDraft
    \/ ReuseDraft
    \/ Critique
    \/ Refine
    \/ SkipRefine
    \/ UpdateState
    \/ ExitCheck
    \/ Finalize

LiveSpec == Init /\ [][Next]_vars /\ WF_vars(RunSteps)

(* ---------------- direct calls of the scoring functions ---------------- *)
(* CriticAgent._extract_quality_score and RefinerAgent._calculate_improvement *)
(* are pure functions of (critique, previous_score, refined_content); the  *)
(* calls below apply them to every previous_score in [0,1].                *)
PreviousScores == 0..100

ScoreInit ==
    /\ MAX_ITERATIONS = 0
    /\ QUALITY_THRESHOLD = DEFAULT_QUALITY_THRESHOLD
    /\ TIMEOUT_SECONDS = 0
    /\ LoopIdle
    /\ seq = NoSeq
    /\ request = NoLimits
    /\ probe \in [stage : {"input"}, previous_score : PreviousScores,
                  critique : Critiques, refined_content : Texts, extracted : {0},
                  score : {0}]

(* CriticAgent.process line 293: self._extract_quality_score(critique, previous_score) *)
CriticScore ==
    /\ probe.stage = "input"
    /\ probe' = [probe EXCEPT !.stage = "critic",
                  !.extracted = ExtractedScore(probe.critique, probe.previous_score),
                  !.score = ExtractQualityScore(probe.critique, probe.previous_score)]
    /\ UNCHANGED <<loopvars, seq>>

(* RefinerAgent.process lines 428-432: self._calculate_improvement(...) *)
RefinerScore ==
    /\ probe.stage = "input"
    /\ probe' = [probe EXCEPT !.stage = "refiner",
                  !.score = CalculateImprovement(probe.previous_score, probe.critique,
                                                 probe.refined_content)]
    /\ UNCHANGED <<loopvars, seq>>

ScoreNext == CriticScore \/ RefinerScore

ScoreSpec == ScoreInit /\ [][ScoreNext]_vars

(* ---------------- runs whose request carries limits -------------------- *)
(* main.py lines 178-188 puts quality_threshold and max_iterations into    *)
(* the input_data of run(); the loop is the one of Spec.                   *)
Requests ==
    {[has_limits |-> TRUE, quality_threshold |-> 80, max_iterations |-> 1,
      timeout_seconds |-> 0],
     [has_limits |-> TRUE, quality_threshold |-> DEFAULT_QUALITY_THRESHOLD,
      max_iterations |-> MaxCfgIterations, timeout_seconds |-> 1]}

RequestInit ==
    /\ MAX_ITERATIONS = MaxCfgIterations
    /\ QUALITY_THRESHOLD = DEFAULT_QUALITY_THRESHOLD
    /\ TIMEOUT_SECONDS = 1
    /\ LoopIdle
    /\ probe = NoProbe
    /\ seq = NoSeq
    /\ request \in Requests

RequestSpec == RequestInit /\ [][Next]_vars

(* ---------------- SequentialAgent.execute ------------------------------ *)
(* The agents are numbered 1..NumAgents in list order and have distinct    *)
(* names.  results is the dict of execute() in insertion order; an entry   *)
(* is the agent's result ("result"), {"completed": True, "metadata": ..}   *)
(* ("metadata") or {"error": .., "completed": False} ("error").  calls     *)
(* lists the agents whose process() was called by the current execute().   *)
NumAgents == 3
IncludeContents == {"all", "last", "none"}

ResultEntry(agent, value) == [agent |-> agent, kind |-> "result", value |-> value]
MetadataEntry(agent) == [agent |-> agent, kind |-> "metadata", value |-> 0]
ErrorEntry(agent) == [agent |-> agent, kind |-> "error", value |-> 0]

(* results[agent_name] = entry: replaces the entry of the key or adds it *)
Put(results, entry) ==
    IF \E k \in 1..Len(results) : results[k].agent = entry.agent
      THEN [k \in 1..Len(results) |->
              IF results[k].agent = entry.agent THEN entry ELSE results[k]]
      ELSE Append(results, entry)

StoreAllResults(include_contents, results, agent, value) ==
    Put(results, ResultEntry(agent, value))

(* lines 54-71: the result map after a stage returned *)
StoreResult(include_contents, results, agent, value) ==
    IF include_contents = "all" THEN Put(results, ResultEntry(agent, value))
    ELSE IF include_contents = "last" THEN <<ResultEntry(agent, value)>>
    ELSE Put(results, MetadataEntry(agent))

(* lines 56-59 and 62-65: the execution log after a stage returned *)
StoreHistory(include_contents, execution_history, agent, value) ==
    IF include_contents = "all" THEN Append(execution_history, ResultEntry(agent, value))
    ELSE IF include_contents = "last" THEN <<ResultEntry(agent, value)>>
    ELSE execution_history

NeverStopOnError == FALSE

(* _should_stop_on_error, lines 95-98 *)
ShouldStopOnError == TRUE

PipelineInit ==
    /\ MAX_ITERATIONS = 0
    /\ QUALITY_THRESHOLD = DEFAULT_QUALITY_THRESHOLD
    /\ TIMEOUT_SECONDS = 0
    /\ LoopIdle
    /\ probe = NoProbe
    /\ request = NoLimits
    /\ seq \in [status : {"idle"}, include_contents : IncludeContents, i : {0},
                results : {<<>>}, execution_history : {<<>>}, calls : {<<>>},
                executes : {0}]

(* execute(), lines 37-38: a call starts with an empty result map *)
Execute ==
    /\ seq.status \in {"idle", "returned"}
    /\ seq.executes < MaxExecutes
    /\ seq' = [seq EXCEPT !.status = "running", !.i = 1, !.results = <<>>,
                           !.calls = <<>>, !.executes = @ + 1]
    /\ UNCHANGED <<loopvars, probe>>

(* lines 44-81: the agent at position i returns a result *)
StageCompletes ==
    /\ seq.status = "running"
    /\ seq.i <= NumAgents
    /\ \E value \in Texts :
         seq' = [seq EXCEPT
                   !.results = StoreResult(seq.include_contents, @, seq.i, value),
                   !.execution_history = StoreHistory(seq.include_contents, @, seq.i, value),
                   !.calls = Append(@, seq.i),
                   !.i = @ + 1]
    /\ UNCHANGED <<loopvars, probe>>

(* lines 83-91: the agent at position i raises; the error entry is stored  *)
(* and the loop is left when _should_stop_on_error() says so               *)
StageRaises ==
    /\ seq.status = "running"
    /\ seq.i <= NumAgents
    /\ seq' = [seq EXCEPT
                 !.results = Put(@, ErrorEntry(seq.i)),
                 !.calls = Append(@, seq.i),
                 !.i = IF ShouldStopOnError THEN @ ELSE @ + 1,
                 !.status = IF ShouldStopOnError THEN "returned" ELSE @]
    /\ UNCHANGED <<loopvars, probe>>

(* line 93: the loop is exhausted, return results *)
ExecuteReturns ==
    /\ seq.status = "running"
    /\ seq.i > NumAgents
    /\ seq' = [seq EXCEPT !.status = "returned"]
    /\ UNCHANGED <<loopvars, probe>>

PipelineNext == Execute \/ StageCompletes \/ StageRaises \/ ExecuteReturns

PipelineSpec == PipelineInit /\ [][PipelineNext]_vars

TypeOK ==
    /\ pc \in {"idle", "loop_test", "draft", "critique", "refine", "update",
               "exit_check", "finalize", "returned", "raised"}
    /\ provider_error \in {"", "draft", "critic", "refiner"}
    /\ draft_calls \in Nat
    /\ iteration \in Nat
    /\ current_score \in 0..100
    /\ best_score \in 0..100

(* The pass cap of LoopTest never blocks a pass the code would run. *)
CapNeverBinds ==
    pc = "loop_test" /\ iteration < MAX_ITERATIONS => passes < MaxPasses

(* ---------------------------- claims ----------------------------------- *)
Returned == pc = "returned"
AfterPass == pc = "exit_check"
LastRecord == history[Len(history)]
LastScore == score_history[Len(score_history)]

(* C1: every returned final_document equals best_content, the content of   *)
(* the highest-scoring version tracked in the loop state, also when the    *)
(* last adopted content has a score equal to the best score.               *)
C1_FinalDocumentIsBestContent ==
    Returned => result.final_document = best_content

(* C2: every returned quality_score equals the loop state's best_score,    *)
(* which is also the best_score reported under quality_monitoring.         *)
C2_QualityScoreIsBestScore ==
    Returned => result.quality_score = best_score /\ result.best_score = result.quality_score

C2_Witness ==
    Returned /\ passes >= 1 /\ result.quality_score > DraftQualityScore(enable_web_search)

(* C3: within one run best_score never decreases from one step to the      *)
(* next, so it is never lower after a pass than after the previous pass.   *)
C3_BestScoreNonDecreasing ==
    [][pc \notin {"idle", "returned", "raised"} => best_score' >= best_score]_vars

C3_Witness ==
    AfterPass /\ passes = 2 /\ best_score > pass_start.best_score
    /\ pass_start.best_score > DraftQualityScore(enable_web_search)

(* C4: at every point of a run (initial state, after the first-pass draft  *)
(* initialisation, after every state update, at finalization)              *)
(* best_score >= current_score.                                            *)
C4_BestAtLeastCurrent ==
    best_score >= current_score

C4_Witness ==
    AfterPass /\ ~LastRecord.rolled_back
    /\ current_score > DraftQualityScore(enable_web_search)

(* C5: after every completed pass and in the returned result the length of *)
(* score_history (score_progression) equals the iteration counter.         *)
C5_ScoreHistoryLengthIsIteration ==
    /\ AfterPass => Len(score_history) = iteration
    /\ Returned => Len(result.score_progression) = result.iterations

(* C6: the iteration counter starts at 0 and grows by one per pass, so the *)
(* returned iterations value is the number of passes; with                 *)
(* max_iterations = 1 and the threshold never reached the result reports   *)
(* iterations = 1 and a maximum-iterations exit reason.                    *)
C6_IterationsCountsPasses ==
    /\ pc = "loop_test" /\ passes = 0 => iteration = 0
    /\ Returned => result.iterations = passes
    /\ Returned /\ MAX_ITERATIONS = 1 /\ passes = 1
          /\ result.quality_score < QUALITY_THRESHOLD
          /\ ~iteration_result.critique.sentinel
       => result.iterations = 1 /\ result.exit_reason = "max_iterations"

(* C7: a run never executes more than MAX_ITERATIONS passes. *)
C7_PassesWithinMaxIterations ==
    passes <= MAX_ITERATIONS

C7_Witness ==
    Returned /\ passes = MAX_ITERATIONS /\ passes >= 1
    /\ result.exit_reason = "max_iterations"

(* C8: provided every provider call returns, a started run eventually      *)
(* returns, whatever the critique texts (with or without a parseable       *)
(* score).                                                                 *)
C8_RunTerminates ==
    (pc = "loop_test") ~> (Returned \/ pc = "raised")

C8_Witness ==
    Returned /\ passes = 2 /\ history[1].rolled_back
    /\ iteration_result.critique.num = <<>> /\ ~iteration_result.critique.sentinel
    /\ result.exit_reason = "max_iterations"

(* The values current and best have when the new score is compared: the    *)
(* draft agent's content and baseline in the first pass, the values at the *)
(* start of the pass afterwards.                                           *)
AtComparison ==
    IF passes = 1
      THEN [draft |-> LastRecord.draft,
            score |-> DraftQualityScore(enable_web_search),
            best_content |-> LastRecord.draft,
            best_score |-> DraftQualityScore(enable_web_search)]
      ELSE [draft |-> pipeline_input.previous_draft,
            score |-> pipeline_input.previous_score,
            best_content |-> pass_start.best_content,
            best_score |-> pass_start.best_score]

Flagged == LastRecord.rolled_back /\ LastRecord.rollback_reason # <<>>

(* C9 as stated: in any pass, the first included, whose new_score is lower *)
(* than current_score, current_draft and current_score after the pass are  *)
(* their values before the pass started, best_draft and best_score are     *)
(* unchanged, and the record is flagged rolled_back with a reason.         *)
C9_RollbackRestoresPassStart ==
    AfterPass /\ LastScore < AtComparison.score
    => /\ current_draft = pipeline_input.previous_draft
       /\ current_score = pipeline_input.previous_score
       /\ best_content = pass_start.best_content
       /\ best_score = pass_start.best_score
       /\ Flagged

(* C9 amended: in any pass whose new_score is lower than current_score,    *)
(* current_draft, current_score, best_draft and best_score after the pass  *)
(* are the values they had when the scores were compared (in the first     *)
(* pass the draft agent's content and baseline score, not the empty values *)
(* from before the pass), and the record is flagged rolled_back with a     *)
(* reason.                                                                 *)
C9_RollbackKeepsComparedVersion ==
    AfterPass /\ LastScore < AtComparison.score
    => /\ current_draft = AtComparison.draft
       /\ current_score = AtComparison.score
       /\ best_content = AtComparison.best_content
       /\ best_score = AtComparison.best_score
       /\ Flagged
       /\ LastRecord.refined_content = current_draft
       /\ LastRecord.quality_score = current_score

C9_Witness ==
    AfterPass /\ LastScore < AtComparison.score /\ Flagged
    /\ current_draft # 0 /\ iteration_result.draft = current_draft

(* The exit conditions in the stated priority order, read from the loop    *)
(* state: the reason kind of the first one that is true, "" if none is.    *)
StatePriorityReason ==
    IF current_score >= QUALITY_THRESHOLD THEN "quality"
    ELSE IF passes >= 1 /\ iteration_result.critique.sentinel THEN "sentinel"
    ELSE IF iteration >= MAX_ITERATIONS THEN "iterations"
    ELSE IF elapsed > TIMEOUT_SECONDS THEN "timeout"
    ELSE ""

ReasonKind(reason) ==
    IF reason \in {"quality_met", "quality_achieved"} THEN "quality"
    ELSE IF reason = "no_major_issues" THEN "sentinel"
    ELSE IF reason = "max_iterations" THEN "iterations"
    ELSE IF reason = "timeout" THEN "timeout"
    ELSE ""

(* C10: whenever the loop stops, exit_reason is the reason of the          *)
(* highest-priority condition (quality threshold, sentinel, iteration      *)
(* limit, timeout) that is true of the loop state at that moment.          *)
C10_ExitReasonFollowsPriority ==
    pc = "finalize" => ReasonKind(exit_reason) = StatePriorityReason

(* C11: with quality_threshold 0.9, when the Critic scores 0.75 in pass 1  *)
(* and 0.95 in pass 2, the run stops after pass 2, reports iterations = 2,  *)
(* has a quality-threshold exit reason and returns the refined content of   *)
(* pass 2.                                                                  *)
C11_ThresholdScenario ==
    Returned /\ QUALITY_THRESHOLD = 90 /\ Len(history) >= 2
       /\ history[1].critic_score = 75 /\ history[2].critic_score = 95
    => /\ passes = 2
       /\ result.iterations = 2
       /\ ReasonKind(result.exit_reason) = "quality"
       /\ result.final_document = history[2].refined_content

(* C12: with timeout_seconds 0 the loop still executes a full pass before   *)
(* the timeout is observed: a run that may iterate does not stop with no    *)
(* pass executed, a timeout exit never precedes the first pass, and the     *)
(* exit after the first pass names the timeout when no other condition      *)
(* holds.                                                                   *)
C12_TimeoutAfterFirstPass ==
    /\ pc \in {"finalize", "returned"} /\ TIMEOUT_SECONDS = 0 /\ MAX_ITERATIONS >= 1
       => passes >= 1
    /\ exit_reason = "timeout" => passes >= 1
    /\ Returned /\ TIMEOUT_SECONDS = 0 /\ passes = 1 /\ elapsed > 0
          /\ iteration_result.critic_score < QUALITY_THRESHOLD
          /\ ~iteration_result.critique.sentinel
          /\ iteration < MAX_ITERATIONS
       => result.exit_reason = "timeout"

CriticScored == probe.stage = "critic"
RefinerScored == probe.stage = "refiner"

(* C13 as stated: for every previous_score in [0,1], a critique holding    *)
(* the sentinel phrase gets the Critic score max(0.95, previous + 0.05).   *)
C13_SentinelScoreUncapped ==
    CriticScored /\ probe.critique.sentinel
    => probe.score = Max(95, probe.previous_score + 5)

(* C13 amended: for every previous_score in [0,1], a critique holding the  *)
(* sentinel phrase gets the Critic score                                   *)
(* min(max(0.95, previous + 0.05), 0.99).                                  *)
C13_SentinelScoreCapped ==
    CriticScored /\ probe.critique.sentinel
    => probe.score = Min(Max(95, probe.previous_score + 5), 99)

C13_Witness ==
    CriticScored /\ probe.critique.sentinel /\ probe.critique.num = <<50>>
    /\ probe.previous_score = 92 /\ probe.score = 97

RefineStepDone == pc = "update"

(* C14: in every pass the Refiner runs if and only if the critique of that *)
(* pass does not hold the sentinel phrase; when it is skipped the pass's   *)
(* refined content is the pass's draft and the pass's score is the         *)
(* Critic's score, also in the score that the pass records.                *)
C14_RefinerRunsIffNoSentinel ==
    /\ RefineStepDone =>
         /\ iteration_result.refiner_called <=> ~iteration_result.critique.sentinel
         /\ ~iteration_result.refiner_called =>
              /\ iteration_result.refined_content = iteration_result.draft
              /\ iteration_result.quality_score = iteration_result.critic_score
    /\ AfterPass /\ ~iteration_result.refiner_called =>
         /\ LastScore = iteration_result.critic_score
         /\ LastRecord.refined_content = LastRecord.draft

C14_Witness ==
    AfterPass /\ passes = 2 /\ ~iteration_result.refiner_called
    /\ iteration_result.critique.sentinel /\ history[1].quality_score < 95
    /\ LastScore = iteration_result.critic_score

(* C15: the draft agent is invoked once per run, in the first pass and in  *)
(* no later pass (not at all in a run without a pass); in every pass       *)
(* k > 1 the draft handed to the Critic is the content that was current    *)
(* at the end of pass k-1, which that pass's history record carries.       *)
C15_DraftWriterOnlyInFirstPass ==
    /\ draft_calls = (IF passes >= 1 /\ ~(passes = 1 /\ pc = "draft") THEN 1 ELSE 0)
    /\ passes > 1 /\ pc \in {"critique", "refine", "update"} =>
         /\ iteration_result.draft = current_draft
         /\ iteration_result.draft = history[passes - 1].refined_content

C15_Witness ==
    pc = "update" /\ passes = 2 /\ draft_calls = 1
    /\ history[1].rolled_back /\ iteration_result.draft = 1 /\ history[1].draft = 1

(* C15 as stated for every run: once run() has ended, the draft agent was  *)
(* invoked exactly once.                                                   *)
C15_DraftWriterOncePerRun ==
    pc \in {"returned", "raised"} => draft_calls = 1

(* C16 as stated: for every critique and every previous_score in [0,1]    *)
(* the Critic's score is min(max(extracted_score, previous + 0.01), 0.99)  *)
(* and is never lower than previous_score; previous 0.80 with a            *)
(* negative-dominated critique without a number gives at least 0.81.       *)
C16_CriticNeverBelowPrevious ==
    CriticScored =>
      /\ probe.score = Min(Max(probe.extracted, probe.previous_score + 1), 99)
      /\ probe.score >= probe.previous_score
      /\ probe.previous_score = 80 /\ probe.critique = [num |-> <<>>, sentinel |-> FALSE,
                                                         kw |-> {"munje"}]
           => probe.score >= 81

(* C16 amended: the Critic's score is                                      *)
(* min(max(extracted_score, previous + 0.01), 0.99); it is never lower     *)
(* than previous_score when previous_score <= 0.99, strictly higher when   *)
(* previous_score < 0.99, and 0.99 when previous_score is above 0.99;      *)
(* previous 0.80 with a negative-dominated critique without a number       *)
(* gives at least 0.81.                                                    *)
C16_CriticNeverBelowCappedPrevious ==
    CriticScored =>
      /\ probe.score = Min(Max(probe.extracted, probe.previous_score + 1), 99)
      /\ probe.previous_score <= 99 => probe.score >= probe.previous_score
      /\ probe.previous_score < 99 => probe.score > probe.previous_score
      /\ probe.previous_score > 99 => probe.score = 99
      /\ probe.previous_score = 80 /\ probe.critique = [num |-> <<>>, sentinel |-> FALSE,
                                                         kw |-> {"munje"}]
           => probe.score >= 81

C16_Witness ==
    CriticScored /\ probe.previous_score = 80 /\ probe.critique.num = <<50>>
    /\ ~probe.critique.sentinel /\ probe.extracted = 50 /\ probe.score = 81

(* C17: for every critique, refined text and previous_score in [0,1] the   *)
(* score returned by the Critic and by the Refiner lies in [0, 0.99], the  *)
(* Refiner's sentinel path included.                                       *)
C17_ScoresWithinCap ==
    CriticScored \/ RefinerScored => probe.score \in 0..99

(* C18 as stated: without an explicit number and without the sentinel the  *)
(* Critic's extracted score is previous + 0.10 when positive keywords      *)
(* outnumber negative ones and previous + 0.05 in every other case, ties   *)
(* included.                                                               *)
C18_KeywordDeltaTwoWay ==
    CriticScored /\ probe.critique.num = <<>> /\ ~probe.critique.sentinel =>
      probe.extracted = probe.previous_score +
         (IF CountIn(CriticPositive, probe.critique) > CountIn(CriticNegative, probe.critique)
            THEN 10 ELSE 5)

(* C18 amended: without an explicit number and without the sentinel the    *)
(* Critic's extracted score is previous + 0.10 when positive keywords      *)
(* outnumber negative ones, previous + 0.05 when negative keywords         *)
(* outnumber positive ones and previous + 0.07 when the counts are equal   *)
(* (none found included); the returned score is that value capped at 0.99. *)
C18_KeywordDeltaThreeWay ==
    CriticScored /\ probe.critique.num = <<>> /\ ~probe.critique.sentinel =>
      LET positive_count == CountIn(CriticPositive, probe.critique)
          negative_count == CountIn(CriticNegative, probe.critique)
          delta == IF positive_count > negative_count THEN 10
                   ELSE IF negative_count > positive_count THEN 5
                   ELSE 7
      IN  /\ probe.extracted = probe.previous_score + delta
          /\ probe.score = Min(probe.previous_score + delta, 99)

C18_Witness ==
    CriticScored /\ probe.critique = [num |-> <<>>, sentinel |-> FALSE,
                                      kw |-> {"usu", "munje"}]
    /\ probe.previous_score = 70 /\ probe.extracted = 77 /\ probe.score = 77

(* C19: a provider call that fails makes run() return a structured result *)
(* with success = false and an error; no exception leaves run().           *)
C19_NoExceptionLeavesRun ==
    pc # "raised"

(* C20: a backend error inside a provider client reaches the calling stage *)
(* as a failure: the failed call returns no text, the stage builds no      *)
(* result from it and the loop does not go on to its next step.            *)
C20_FailedCallStopsStage ==
    provider_error # "" => pc \notin {"critique", "refine", "update"}

ErrorPositions == {k \in 1..Len(seq.results) : seq.results[k].kind = "error"}

(* C21: execute() is fail-fast: when stage i raises no later stage is      *)
(* executed, and the returned map holds an error entry for stage i         *)
(* (completed = false) after the entries kept for the earlier stages under *)
(* the memory policy: all their results ("all"), the result of stage i-1   *)
(* only ("last"), their metadata entries ("none").                         *)
C21_FailFast ==
    /\ seq.status = "running" => ErrorPositions = {}
    /\ \A k \in ErrorPositions :
         LET stage == seq.results[k].agent
             kept == SubSeq(seq.results, 1, k - 1)
         IN  /\ seq.status = "returned"
             /\ k = Len(seq.results)
             /\ seq.calls = [j \in 1..stage |-> j]
             /\ seq.include_contents = "all" =>
                  /\ Len(kept) = stage - 1
                  /\ \A j \in 1..Len(kept) : kept[j].agent = j /\ kept[j].kind = "result"
             /\ seq.include_contents = "last" =>
                  /\ Len(kept) = (IF stage = 1 THEN 0 ELSE 1)
                  /\ \A j \in 1..Len(kept) :
                        kept[j].agent = stage - 1 /\ kept[j].kind = "result"
             /\ seq.include_contents = "none" =>
                  /\ Len(kept) = stage - 1
                  /\ \A j \in 1..Len(kept) : kept[j].agent = j /\ kept[j].kind = "metadata"

C21_Witness ==
    seq.status = "returned" /\ seq.include_contents = "last" /\ seq.executes = 2
    /\ Len(seq.results) = 2 /\ seq.results[2] = ErrorEntry(2) /\ seq.calls = <<1, 2>>

(* C22: under the "last" policy, after each stage of execute() completes   *)
(* the result map and the execution log each hold exactly one entry, that  *)
(* of the stage that completed last.                                       *)
C22_LastKeepsOneEntry ==
    seq.include_contents = "last" /\ seq.i > 1 /\ ErrorPositions = {} =>
      /\ Len(seq.results) = 1
      /\ Len(seq.execution_history) = 1
      /\ seq.results[1].agent = seq.i - 1 /\ seq.results[1].kind = "result"
      /\ seq.execution_history[1] = seq.results[1]

C22_Witness ==
    seq.include_contents = "last" /\ seq.status = "running" /\ seq.executes = 2
    /\ seq.i = 3 /\ seq.results = <<ResultEntry(2, 1)>>
    /\ seq.execution_history = <<ResultEntry(2, 1)>>

RunStarted == pc = "loop_test" /\ passes = 0

(* C23: every call of run() starts from a fresh LoopState: also on a       *)
(* LoopAgent that completed a run before, the run begins with iteration 0, *)
(* empty current and best drafts, scores 0, empty history and              *)
(* score_history and empty exit_reason.                                    *)
C23_RunStartsFresh ==
    RunStarted =>
      /\ iteration = 0 /\ current_draft = 0 /\ current_score = 0
      /\ best_content = 0 /\ best_score = 0
      /\ history = <<>> /\ score_history = <<>>
      /\ exit_reason = "" /\ final_output = 0

C23_Witness ==
    RunStarted /\ runs = 2 /\ web_search_results = 1 /\ iteration = 0 /\ history = <<>>

(* C24: the quality_threshold, max_iterations and timeout_seconds of the   *)
(* request handed to run() are the limits the exit conditions use: a run   *)
(* that stops on the iteration limit has reached the request's             *)
(* max_iterations and ran no more passes than that, one that stops on the  *)
(* quality threshold has a score of at least the request's                 *)
(* quality_threshold, one that stops on the timeout has run longer than    *)
(* the request's timeout_seconds.                                          *)
C24_RequestLimitsGovernExit ==
    Returned /\ request.has_limits =>
      /\ passes <= request.max_iterations
      /\ result.exit_reason = "max_iterations" => result.iterations >= request.max_iterations
      /\ result.exit_reason = "timeout" => elapsed > request.timeout_seconds
      /\ ReasonKind(result.exit_reason) # "quality" /\ passes >= 1 =>
           iteration_result.critic_score < request.quality_threshold

(* C25: a rollback can only happen in the first pass of a run: in every   *)
(* later pass the computed new_score is at least current_score.            *)
C25_RollbackOnlyInFirstPass ==
    /\ \A k \in 1..Len(history) : history[k].rolled_back => k = 1
    /\ pc = "update" /\ passes > 1 => iteration_result.quality_score >= current_score

C25_Witness ==
    AfterPass /\ passes = 2 /\ history[1].rolled_back /\ ~history[2].rolled_back
    /\ history[1].quality_score = DRAFT_BASELINE /\ history[2].quality_score > DRAFT_BASELINE

InRun == pc \notin {"idle", "returned", "raised"}

(* C26: current_score never decreases during a run; once a pass is         *)
(* recorded it is at least the draft agent's baseline score, and it is     *)
(* never above 0.99.                                                       *)
C26_CurrentScoreNeverDecreases ==
    /\ [][InRun => current_score' >= current_score]_vars
    /\ [](history # <<>> => current_score >= DraftQualityScore(enable_web_search))
    /\ [](current_score <= 99)

C26_Witness ==
    Returned /\ passes = 2 /\ history[1].rolled_back
    /\ current_score > DRAFT_BASELINE /\ history[1].quality_score = DRAFT_BASELINE

(* C27: whenever run() returns a result, exit_reason is non-empty and      *)
(* names a condition that held when the loop stopped, at the pre-pass      *)
(* check or at the post-pass check, also in a run without a pass.          *)
C27_ExitReasonNamesCondition ==
    Returned =>
      /\ result.exit_reason # ""
      /\ ReasonKind(result.exit_reason) # ""
      /\ result.exit_reason = "max_iterations" => iteration >= MAX_ITERATIONS
      /\ result.exit_reason = "timeout" => elapsed > TIMEOUT_SECONDS
      /\ result.exit_reason = "quality_achieved" => current_score >= QUALITY_THRESHOLD
      /\ result.exit_reason = "quality_met" =>
           passes >= 1 /\ iteration_result.critic_score >= QUALITY_THRESHOLD
      /\ result.exit_reason = "no_major_issues" =>
           passes >= 1 /\ iteration_result.critique.sentinel
      /\ passes = 0 => result.exit_reason \in {"max_iterations", "timeout"}

C27_Witness ==
    Returned /\ passes = 0 /\ result.exit_reason = "timeout" /\ MAX_ITERATIONS > 0
    /\ runs = 2

(* C28: the Critic's normalisation of an explicit score is monotone: for a *)
(* fixed previous_score and explicit scores N1 <= N2 (no sentinel) the     *)
(* score returned for N1 is never higher than the one returned for N2.     *)
C28_ExplicitScoreMonotone ==
    CriticScored /\ ~probe.critique.sentinel /\ probe.critique.num # <<>> =>
      \A n2 \in ExplicitNums \ {<<>>} :
         probe.critique.num[1] <= n2[1] =>
           probe.score <= ExtractQualityScore([probe.critique EXCEPT !.num = n2],
                                              probe.previous_score)

(* C29: the result of a run holds no data of an earlier run on the same    *)
(* LoopAgent: its web_search_results are present only if the first-pass    *)
(* draft of that run produced web search results.                          *)
C29_NoDataFromEarlierRun ==
    Returned /\ result.web_search_results # 0 =>
      /\ result.web_search_results = runs
      /\ passes >= 1 /\ enable_web_search

(* C30: in every returned result each entry of score_progression is at     *)
(* most the returned quality_score, history holds exactly one record per   *)
(* executed pass in execution order, and a rolled-back record carries the  *)
(* retained current score, not the rejected one.                           *)
C30_HistoryAndScoreProgression ==
    Returned =>
      /\ \A k \in 1..Len(result.score_progression) :
            result.score_progression[k] <= result.quality_score
      /\ Len(result.history) = passes
      /\ Len(result.score_progression) = passes
      /\ \A k \in 1..Len(result.history) :
            /\ k > 1 => result.history[k].iteration > result.history[k - 1].iteration
            /\ k > 1 => result.history[k].draft = result.history[k - 1].refined_content
            /\ result.history[k].rolled_back =>
                 /\ result.history[k].quality_score = result.history[k].rollback_reason[1]
                 /\ result.history[k].quality_score > result.score_progression[k]
            /\ ~result.history[k].rolled_back =>
                 result.history[k].quality_score = result.score_progression[k]

C30_Witness ==
    Returned /\ passes = 2 /\ result.history[1].rolled_back
    /\ result.history[1].quality_score = DRAFT_BASELINE
    /\ result.score_progression[1] < DRAFT_BASELINE
    /\ result.score_progression[2] = result.quality_score

====
